---- MODULE Spec2Model ----
(***************************************************************************)
(* Model of the crawler's dispatcher (src/src/main.rs): process start-up   *)
(* (main, setup_app, Dispatcher::new), the scheduling loop of              *)
(* Dispatcher::run with its dispatching / crawl / fetch loops, and the     *)
(* Spider (crawl_page) and Fetch (fetch) tasks it spawns.                  *)
(*                                                                         *)
(* Strings (command-line seeds, href/src attribute values) are sequences   *)
(* of lexical tokens, e.g. "http://a/x" is <<"http",":","//","a","/","x">>.*)
(* A parsed Url is a record [scheme, host, path, query, cannot_be_a_base]. *)
(***************************************************************************)
EXTENDS Integers, Sequences, FiniteSets, TLC

\* ------------------------------------------------------------------ bounds
\* MAX_HOST_VISITORS is 512 in the source; the model scales it down so that
\* a host actually reaches the ceiling with a handful of findings.
MAX_HOST_VISITORS == 2
\* default recursion depth (const MAX_RECURSION_DEPTH)
MAX_RECURSION_DEPTH == 4
\* longest command line (number of positional url arguments)
MaxSeeds == 2
\* largest value given to --depth
MaxDepthArg == 1

\* ------------------------------------------------------------ url crate
NoHost == "none"
NoQuery == "none"
SchemeNames == {"http", "https", "xhttp", "ftp", "mailto", "javascript"}
SpecialSchemes == {"http", "https", "ftp"}
HostNames == {"a", "b"}

ParseOk(u) == [ok |-> TRUE, url |-> u, err |-> "none"]
ParseErr(e) == [ok |-> FALSE, url |-> <<>>, err |-> e]

\* the tokens of s before its query token, and the query
BeforeQuery(s) ==
  IF Len(s) >= 1 /\ s[Len(s)] = "?q" THEN SubSeq(s, 1, Len(s) - 1) ELSE s
QueryOf(s) ==
  IF Len(s) >= 1 /\ s[Len(s)] = "?q" THEN "q" ELSE NoQuery

\* path tokens ("/" seg "/" seg ...) to the list of path segments;
\* "/" alone is the single empty segment
RECURSIVE PathSegments(_)
PathSegments(toks) ==
  IF toks = <<>> THEN <<>>
  ELSE IF toks[1] = "/"
       THEN IF Len(toks) >= 2 /\ toks[2] # "/"
            THEN <<toks[2]>> \o PathSegments(SubSeq(toks, 3, Len(toks)))
            ELSE <<"">> \o PathSegments(Tail(toks))
       ELSE <<toks[1]>> \o PathSegments(Tail(toks))

\* authority and what follows it, for a url of the given scheme
ParseAuthority(scheme, rest) ==
  IF rest = <<>> \/ rest[1] = "/" THEN ParseErr("EmptyHost")
  ELSE IF rest[1] = "[" THEN ParseErr("InvalidIpv6Address")
  ELSE IF rest[1] \notin HostNames THEN ParseErr("InvalidDomainCharacter")
  ELSE IF Len(rest) >= 2 /\ rest[2] = ":" THEN ParseErr("InvalidPort")
  ELSE LET after == Tail(rest)
           segs == PathSegments(BeforeQuery(after))
       IN ParseOk([scheme |-> scheme, host |-> rest[1],
                   path |-> IF segs = <<>> /\ scheme \in SpecialSchemes
                            THEN <<"">> ELSE segs,
                   query |-> QueryOf(after),
                   cannot_be_a_base |-> FALSE])

HasScheme(s) == Len(s) >= 2 /\ s[1] \in SchemeNames /\ s[2] = ":"

\* Url::parse(s): an absolute url, or the reason it is none
Url_parse(s) ==
  IF ~HasScheme(s) THEN ParseErr("RelativeUrlWithoutBase")
  ELSE LET scheme == s[1]
           rest == SubSeq(s, 3, Len(s))
       IN IF Len(rest) >= 1 /\ rest[1] = "//"
          THEN ParseAuthority(scheme, Tail(rest))
          ELSE IF scheme \in SpecialSchemes
               THEN ParseAuthority(scheme, rest)
               ELSE ParseOk([scheme |-> scheme, host |-> NoHost,
                             path |-> BeforeQuery(rest),
                             query |-> QueryOf(rest),
                             cannot_be_a_base |-> TRUE])

\* base.join(s): s resolved against base
Url_join(base, s) ==
  IF HasScheme(s) THEN Url_parse(s)
  ELSE IF base.cannot_be_a_base
       THEN ParseErr("RelativeUrlWithCannotBeABaseBase")
  ELSE IF s = <<>> THEN ParseOk(base)
  ELSE IF s[1] = "//" THEN ParseAuthority(base.scheme, Tail(s))
  ELSE IF s[1] = "/"
       THEN ParseOk([base EXCEPT !.path = PathSegments(BeforeQuery(s)),
                                 !.query = QueryOf(s)])
  ELSE ParseOk([base EXCEPT
                  !.path = SubSeq(base.path, 1, Len(base.path) - 1)
                           \o PathSegments(BeforeQuery(s)),
                  !.query = QueryOf(s)])

\* does the scheme contain the substring "http"
SchemeContainsHttp(scheme) == scheme \in {"http", "https", "xhttp"}

\* ------------------------------------------------------------- findings
Page(url, depth) == [kind |-> "Page", url |-> url, depth |-> depth]
Image(url) == [kind |-> "Image", url |-> url]

\* ------------------------------------------------- link extraction, resolver
\* A page body is the sequence of its start tags, each
\* [name, attrs] with attrs a sequence of [name, value].
RECURSIVE AttrValues(_, _)
AttrValues(attrs, name) ==
  IF attrs = <<>> THEN <<>>
  ELSE (IF attrs[1].name = name THEN <<attrs[1].value>> ELSE <<>>)
       \o AttrValues(Tail(attrs), name)

\* TokenSink::process_token folded over the body: the href values of <a>
\* (tagName = "a", attrName = "href") or the src values of <img>
RECURSIVE process_token(_, _, _)
process_token(body, tagName, attrName) ==
  IF body = <<>> THEN <<>>
  ELSE (IF body[1].name = tagName
        THEN AttrValues(body[1].attrs, attrName) ELSE <<>>)
       \o process_token(Tail(body), tagName, attrName)

\* does resolving some relative link against page_url fail (the unwrap at
\* the join panics)
parse_links_panics(links, page_url) ==
  \E i \in DOMAIN links :
     /\ Url_parse(links[i]).err = "RelativeUrlWithoutBase"
     /\ ~Url_join(page_url, links[i]).ok

\* mutant: the scheme filter is missing
LinkFilterHostOnly(u) == u.host # NoHost

\* scheme and host filters of parse_links
LinkFilter(u) == SchemeContainsHttp(u.scheme) /\ u.host # NoHost

parse_links(links, page_url) ==
  LET resolved(l) ==
        LET r == Url_parse(l)
        IN IF r.err = "RelativeUrlWithoutBase"
           THEN LET j == Url_join(page_url, l)
                IN IF j.ok THEN {j.url} ELSE {}  \* unwrap: parse_links_panics
           ELSE IF ~r.ok THEN {} ELSE {r.url}
  IN {u \in UNION {resolved(links[i]) : i \in DOMAIN links} : LinkFilter(u)}

\* the depth Aggregate::parse tags page findings with
TagDepth(depth) == depth

\* Aggregate::parse
Aggregate_parse(agg, page_url) ==
  {Page(u, TagDepth(agg.depth)) : u \in parse_links(agg.page_links, page_url)}
  \cup {Image(u) : u \in parse_links(agg.image_links, page_url)}

\* the site root of a page url: set_path(""), set_query(None)
SiteRoot(page_url) ==
  [page_url EXCEPT
     !.path = IF page_url.cannot_be_a_base THEN page_url.path ELSE <<"">>,
     !.query = NoQuery]

Tokenize(page_body, depth) ==
  [depth |-> depth,
   page_links |-> process_token(page_body, "a", "href"),
   image_links |-> process_token(page_body, "img", "src")]

process_page_panics(page_url, page_body, depth) ==
  LET agg == Tokenize(page_body, depth)
  IN \/ parse_links_panics(agg.page_links, SiteRoot(page_url))
     \/ parse_links_panics(agg.image_links, SiteRoot(page_url))

process_page(page_url, page_body, depth) ==
  Aggregate_parse(Tokenize(page_body, depth), SiteRoot(page_url))

\* ------------------------------------------------------------------ inputs
S_a == <<"http", ":", "//", "a", "/">>
S_ax == <<"http", ":", "//", "a", "/", "x">>
S_b == <<"https", ":", "//", "b", "/", "p", "?q">>
S_bad == <<"not_a_url">>
S_mail == <<"mailto", ":", "m">>
SeedStrs == {S_a, S_b, S_bad, S_mail}

L_x == <<"/", "x">>
L_y == <<"y">>
L_z == <<"/", "z">>
L_img == <<"/", "d", "/", "i.png">>
L_js == <<"javascript", ":", "void(0)">>
L_port == <<"http", ":", "//", "a", ":", "bad">>
L_xhttp == <<"xhttp", ":", "//", "b", "/", "w">>
L_v6 == <<"//", "[">>
L_ftp == <<"ftp", ":", "//", "a", "/", "f">>
L_opaque == <<"xhttp", ":", "w">>

U_a == Url_parse(S_a).url
U_ax == Url_parse(S_ax).url
U_b == Url_parse(S_b).url

A(href) == [name |-> "a", attrs |-> <<[name |-> "href", value |-> href]>>]
Img(src) == [name |-> "img",
             attrs |-> <<[name |-> "alt", value |-> <<"pic">>],
                         [name |-> "src", value |-> src]>>]
Div == [name |-> "div", attrs |-> <<[name |-> "href", value |-> L_z]>>]

\* the webs crawled: page url -> page body (other urls serve an empty page)
WebEmpty == [u \in {} |-> <<>>]
WebCycle == (U_a :> <<A(L_x), Img(L_img)>>)
            @@ (U_ax :> <<A(S_a), A(S_b), Div>>)
WebFan == (U_a :> <<A(L_x), A(L_y), A(L_z)>>)
WebBad == (U_a :> <<A(L_js), A(S_mail), A(L_port), A(L_xhttp), A(L_ftp),
                    A(L_opaque), Img(L_img)>>)
          @@ (U_b :> <<A(L_x), A(L_v6)>>)
Webs == {WebEmpty, WebCycle, WebFan, WebBad}

Body(w, u) == IF u \in DOMAIN w THEN w[u] ELSE <<>>

\* every command line of 1..MaxSeeds url arguments
Argvs == UNION {[1..n -> SeedStrs] : n \in 1..MaxSeeds}
\* --depth: absent, or given with a text that parses as u8 or does not
DepthArgs == {[given |-> FALSE, parses |-> FALSE, value |-> 0],
              [given |-> TRUE, parses |-> FALSE, value |-> 0]}
             \cup {[given |-> TRUE, parses |-> TRUE, value |-> n] :
                       n \in 0..MaxDepthArg}

\* all orders in which a HashSet's elements can be iterated
Orders(S) ==
  {s \in [1..Cardinality(S) -> S] :
     \A i, j \in 1..Cardinality(S) : s[i] = s[j] => i = j}

RemoveAt(s, i) == SubSeq(s, 1, i - 1) \o SubSeq(s, i + 1, Len(s))

\* ------------------------------------------------------------------- state
VARIABLES
  pc,                 \* where the process is
  argv,               \* the url arguments not yet consumed by setup_app
  depth_arg,          \* the --depth argument
  web,                \* what the remote hosts serve
  status,             \* "running", or the process's exit status
  diag,               \* what the failing process reported
  client,             \* "none" until Dispatcher::new built the Dispatcher
  inital_urls,        \* Dispatcher.inital_urls
  max_recursion_depth,
  archive,            \* Dispatcher.archive
  host_visits,        \* Dispatcher.host_visits (a map: only some hosts)
  crawlers,           \* Dispatcher.crawlers: spider tasks not yet harvested
  fetchers,           \* Dispatcher.fetchers: fetch tasks not yet harvested
  queue,              \* run's local frontier
  idx,                \* drain_filter's position in queue
  crawlers_finished,
  fetchers_finished,
  files,              \* archive/res: file name -> content
  parse_failed,       \* history: Url::parse rejected a seed
  dispatched,         \* history: the findings handed to task::spawn, in order
  pushed,             \* history: what the crawl loop pushed into queue
  pass_base,          \* history: findings dispatched before the current pass
  outcomes            \* history: how the task of each url ended

vars == <<pc, argv, depth_arg, web, status, diag, client, inital_urls,
          max_recursion_depth, archive, host_visits, crawlers, fetchers,
          queue, idx, crawlers_finished, fetchers_finished, files,
          parse_failed, dispatched, pushed, pass_base, outcomes>>

dispatcherVars == <<inital_urls, max_recursion_depth, archive, host_visits,
                    crawlers, fetchers>>
runVars == <<queue, idx, crawlers_finished, fetchers_finished>>
inputVars == <<argv, depth_arg, web>>
historyVars == <<parse_failed, dispatched, pushed, pass_base, outcomes>>

Init ==
  /\ pc = "setup_logger"
  /\ argv \in Argvs
  /\ depth_arg \in DepthArgs
  /\ web \in Webs
  /\ status = "running"
  /\ diag = "none"
  /\ client = "none"
  /\ inital_urls = {}
  /\ max_recursion_depth = 0
  /\ archive = {}
  /\ host_visits = <<>>
  /\ crawlers = {}
  /\ fetchers = {}
  /\ queue = <<>>
  /\ idx = 1
  /\ crawlers_finished = FALSE
  /\ fetchers_finished = FALSE
  /\ files = <<>>
  /\ parse_failed = FALSE
  /\ dispatched = <<>>
  /\ pushed = {}
  /\ pass_base = 0
  /\ outcomes = {}

\* ----------------------------------------------------------------- startup
\* a panic on the main task: the process dies with a failure status
Panic(msg) == pc' = "panicked" /\ status' = "failure" /\ diag' = msg
\* main returns Err
Fail(msg) == pc' = "failed" /\ status' = "failure" /\ diag' = msg

\* main: setup_logger()?
SetupLogger ==
  /\ pc = "setup_logger"
  /\ \/ pc' = "setup_app" /\ UNCHANGED <<status, diag>>
     \/ Fail("InitError")
  /\ UNCHANGED <<inputVars, client, dispatcherVars, runVars, files,
                 historyVars>>

\* mutant: unparsable seeds are skipped when another seed parses
SeedsAcceptedSkippingBad(results) == \E i \in DOMAIN results : results[i].ok

\* do the parsed seeds let setup_app return
SeedsAccepted(results) == \A i \in DOMAIN results : results[i].ok

\* main: setup_app()
setup_app ==
  /\ pc = "setup_app"
  /\ LET results == [i \in DOMAIN argv |-> Url_parse(argv[i])]
         bad == {i \in DOMAIN results : ~results[i].ok}
     IN /\ parse_failed' = (bad # {})
        /\ IF SeedsAccepted(results)
           THEN /\ pc' = "new"
                /\ inital_urls' = {results[i].url : i \in DOMAIN results \ bad}
                /\ max_recursion_depth' =
                     IF depth_arg.given /\ depth_arg.parses
                     THEN depth_arg.value ELSE MAX_RECURSION_DEPTH
                /\ argv' = <<>>
                /\ depth_arg' = [given |-> FALSE, parses |-> FALSE, value |-> 0]
                /\ UNCHANGED <<status, diag>>
           ELSE /\ Panic(results[CHOOSE i \in bad : \A j \in bad : i <= j].err)
                /\ UNCHANGED <<inital_urls, max_recursion_depth, argv,
                               depth_arg>>
  /\ UNCHANGED <<web, client, archive, host_visits, crawlers, fetchers,
                 runVars, files, dispatched, pushed, pass_base, outcomes>>

\* run_crawler: Dispatcher::new(...)?
Dispatcher_new ==
  /\ pc = "new"
  /\ \/ pc' = "run" /\ client' = "built" /\ UNCHANGED <<status, diag>>
     \/ Fail("reqwest::Error") /\ UNCHANGED client
  /\ UNCHANGED <<inputVars, dispatcherVars, runVars, files, historyVars>>

\* Dispatcher::run up to the main loop: the seed queue
RunStart ==
  /\ pc = "run"
  /\ queue' \in Orders({Page(u, 0) : u \in inital_urls})
  /\ crawlers_finished' = FALSE
  /\ fetchers_finished' = FALSE
  /\ idx' = 1
  /\ pc' = "dispatching"
  /\ UNCHANGED <<inputVars, status, diag, client, dispatcherVars, files,
                 historyVars>>

\* ------------------------------------------------------ dispatching loop
\* host_visits.entry(host).or_insert(0)
EntryOrInsert(hv, host) == IF host \in DOMAIN hv THEN hv ELSE hv @@ (host :> 0)

\* mutant: the ceiling compared with <= (cap + 1)
AdmitsAtCeiling(visits) == visits <= MAX_HOST_VISITORS

\* the admission test of the drain_filter closure
Admits(visits) == visits < MAX_HOST_VISITORS

\* mutant: the admitted finding's host is not counted
VisitForgotten(visits) == visits

\* *visits += 1 of an admitted finding
Visit(visits) == visits + 1

\* task::spawn(crawl_page(url, client, depth)) / task::spawn(fetch(url, client))
SpawnCrawl(id, f) ==
  [id |-> id, crawl_link |-> f.url, depth |-> f.depth, state |-> "running",
   new_findings |-> {}]
SpawnFetch(id, f) == [id |-> id, resource_url |-> f.url, state |-> "running"]

\* the closure panics: url.host().expect("url must have host")
DispatchPanic ==
  /\ pc = "dispatching"
  /\ idx <= Len(queue)
  /\ queue[idx].url.host = NoHost
  /\ Panic("url must have host")
  /\ UNCHANGED <<inputVars, client, dispatcherVars, runVars, files,
                 historyVars>>

\* the closure returns true: the finding leaves the queue for a task
DispatchAdmit ==
  /\ pc = "dispatching"
  /\ idx <= Len(queue)
  /\ LET f == queue[idx]
         host == f.url.host
         hv == EntryOrInsert(host_visits, host)
         id == Len(dispatched) + 1
     IN /\ host # NoHost
        /\ Admits(hv[host])
        /\ host_visits' = [hv EXCEPT ![host] = Visit(@)]
        /\ IF f.kind = "Page"
           THEN /\ crawlers' = crawlers \cup {SpawnCrawl(id, f)}
                /\ UNCHANGED fetchers
           ELSE /\ fetchers' = fetchers \cup {SpawnFetch(id, f)}
                /\ UNCHANGED crawlers
        /\ dispatched' = Append(dispatched, f)
        /\ queue' = RemoveAt(queue, idx)
  /\ UNCHANGED <<pc, inputVars, status, diag, client, inital_urls,
                 max_recursion_depth, archive, idx, crawlers_finished,
                 fetchers_finished, files, parse_failed, pushed, pass_base,
                 outcomes>>

\* mutant: the closure returns true for a denied finding too, so drain_filter
\* takes it out of the queue
DispatchDenyDrops ==
  /\ pc = "dispatching"
  /\ idx <= Len(queue)
  /\ LET host == queue[idx].url.host
         hv == EntryOrInsert(host_visits, host)
     IN /\ host # NoHost
        /\ ~Admits(hv[host])
        /\ host_visits' = hv
  /\ queue' = RemoveAt(queue, idx)
  /\ UNCHANGED <<pc, inputVars, status, diag, client, inital_urls,
                 max_recursion_depth, archive, crawlers, fetchers, idx,
                 crawlers_finished, fetchers_finished, files, historyVars>>

\* the closure returns false: the finding stays in the queue
DispatchDeny ==
  /\ pc = "dispatching"
  /\ idx <= Len(queue)
  /\ LET host == queue[idx].url.host
         hv == EntryOrInsert(host_visits, host)
     IN /\ host # NoHost
        /\ ~Admits(hv[host])
        /\ host_visits' = hv
  /\ idx' = idx + 1
  /\ UNCHANGED <<pc, inputVars, status, diag, client, inital_urls,
                 max_recursion_depth, archive, crawlers, fetchers, queue,
                 crawlers_finished, fetchers_finished, files, historyVars>>

\* drain_filter is through the queue; the flags are set before the crawl loop
DispatchEnd ==
  /\ pc = "dispatching"
  /\ idx > Len(queue)
  /\ crawlers_finished' = TRUE
  /\ fetchers_finished' = TRUE
  /\ pc' = "crawl_loop"
  /\ UNCHANGED <<inputVars, status, diag, client, dispatcherVars, queue, idx,
                 files, historyVars>>

\* ------------------------------------------------------------------- tasks
\* crawl_page on its own tokio task: the request fails, the page is
\* processed, or process_page panics (the task ends in a JoinError)
crawl_page(t) ==
  /\ t \in crawlers
  /\ t.state = "running"
  /\ \E sent \in BOOLEAN :
       LET body == Body(web, t.crawl_link)
           done ==
             IF ~sent THEN [t EXCEPT !.state = "Err"]
             ELSE IF process_page_panics(t.crawl_link, body, t.depth)
                  THEN [t EXCEPT !.state = "JoinError"]
                  ELSE [t EXCEPT !.state = "Ok",
                                 !.new_findings =
                                    process_page(t.crawl_link, body, t.depth)]
       IN /\ crawlers' = (crawlers \ {t}) \cup {done}
          /\ outcomes' = outcomes \cup
                {[url |-> t.crawl_link, result |-> done.state]}
  /\ UNCHANGED <<pc, inputVars, status, diag, client, inital_urls,
                 max_recursion_depth, archive, host_visits, fetchers, runVars,
                 files, parse_failed, dispatched, pushed, pass_base>>

\* the file name fetch writes to: the last path segment
FileName(resource_url) == resource_url.path[Len(resource_url.path)]

\* fetch on its own tokio task
fetch(t) ==
  /\ t \in fetchers
  /\ t.state = "running"
  /\ IF t.resource_url.cannot_be_a_base
     THEN \* path_segments() is None: return Ok(())
          /\ fetchers' = (fetchers \ {t}) \cup {[t EXCEPT !.state = "Ok"]}
          /\ outcomes' = outcomes \cup
                {[url |-> t.resource_url, result |-> "Ok"]}
          /\ UNCHANGED files
     ELSE LET name == FileName(t.resource_url)
              created == [n \in DOMAIN files \cup {name} |->
                            IF n = name THEN <<>> ELSE files[n]]
              written == [created EXCEPT ![name] = <<t.resource_url>>]
          IN \E outcome \in {"create_err", "send_err", "write_err", "ok"} :
               LET state == IF outcome = "ok" THEN "Ok" ELSE "Err"
               IN /\ files' = CASE outcome = "create_err" -> files
                                 [] outcome = "ok" -> written
                                 [] OTHER -> created
                  /\ fetchers' = (fetchers \ {t}) \cup
                        {[t EXCEPT !.state = state]}
                  /\ outcomes' = outcomes \cup
                        {[url |-> t.resource_url, result |-> state]}
  /\ UNCHANGED <<pc, inputVars, status, diag, client, inital_urls,
                 max_recursion_depth, archive, host_visits, crawlers, runVars,
                 parse_failed, dispatched, pushed, pass_base>>

\* -------------------------------------------------------------- crawl loop
\* host_visits counts in u32; the model's counters wrap at CounterModulus
\* (2^32 in the source, beyond the integers of the model checker)
CounterModulus == 65536

\* new_findings.difference(&self.archive)
DedupGate(new_findings, arch) == new_findings \ arch

\* mutant: the archive is overwritten with the new findings
ArchiveReplace(arch, new_findings) == new_findings

\* self.archive.extend(new_findings.clone())
ArchiveExtend(arch, new_findings) == arch \cup new_findings

\* mutant: the depth compared with <=
DepthCheckInclusive(depth, max) == depth <= max

\* if depth < self.max_recursion_depth
DepthCheck(depth, max) == depth < max

\* mutant: the crawl loop only drains the tasks that have completed and
\* breaks while others are still running
CrawlLoopBreakEarly ==
  /\ pc = "crawl_loop"
  /\ \A t \in crawlers : t.state = "running"
  /\ pc' = "fetch_loop"
  /\ UNCHANGED <<inputVars, status, diag, client, dispatcherVars, runVars,
                 files, historyVars>>

\* self.crawlers.next() is None
CrawlLoopBreak ==
  /\ pc = "crawl_loop"
  /\ crawlers = {}
  /\ pc' = "fetch_loop"
  /\ UNCHANGED <<inputVars, status, diag, client, dispatcherVars, runVars,
                 files, historyVars>>

\* Some(Err(e)): the task panicked
CrawlHarvestJoinError ==
  /\ pc = "crawl_loop"
  /\ \E t \in crawlers :
       /\ t.state = "JoinError"
       /\ crawlers' = crawlers \ {t}
  /\ UNCHANGED <<pc, inputVars, status, diag, client, inital_urls,
                 max_recursion_depth, archive, host_visits, fetchers, runVars,
                 files, historyVars>>

\* mutant: the request error is returned from run (e.g. with ?) instead of
\* being logged
CrawlHarvestErrAborts ==
  /\ pc = "crawl_loop"
  /\ \E t \in crawlers : t.state = "Err"
  /\ Fail("reqwest::Error")
  /\ UNCHANGED <<inputVars, client, dispatcherVars, runVars, files,
                 historyVars>>

\* Some(Ok(Err(e))): the request failed
CrawlHarvestErr ==
  /\ pc = "crawl_loop"
  /\ \E t \in crawlers :
       /\ t.state = "Err"
       /\ crawlers' = crawlers \ {t}
  /\ UNCHANGED <<pc, inputVars, status, diag, client, inital_urls,
                 max_recursion_depth, archive, host_visits, fetchers, runVars,
                 files, historyVars>>

\* Some(Ok(Ok(crawl_response)))
CrawlHarvestOk ==
  /\ pc = "crawl_loop"
  /\ \E t \in crawlers :
       /\ t.state = "Ok"
       /\ LET host == t.crawl_link.host
              counted == host \in DOMAIN host_visits
              new_findings == DedupGate(t.new_findings, archive)
          IN \/ \* *n -= 1 on a zero count, built with overflow checks
                /\ counted /\ host_visits[host] = 0
                /\ Panic("attempt to subtract with overflow")
                /\ UNCHANGED <<dispatcherVars, runVars, pushed>>
             \/ /\ crawlers' = crawlers \ {t}
                /\ crawlers_finished' = FALSE
                /\ host_visits' =
                     IF counted
                     THEN [host_visits EXCEPT ![host] = (@ - 1) % CounterModulus]
                     ELSE host_visits
                /\ archive' = ArchiveExtend(archive, new_findings)
                /\ IF DepthCheck(t.depth, max_recursion_depth)
                   THEN /\ \E order \in Orders(new_findings) :
                             queue' = queue \o order
                        /\ pushed' = pushed \cup
                             {[f |-> f, from_depth |-> t.depth] :
                                f \in new_findings}
                   ELSE UNCHANGED <<queue, pushed>>
                /\ UNCHANGED <<pc, status, diag, inital_urls,
                               max_recursion_depth, fetchers, idx,
                               fetchers_finished>>
  /\ UNCHANGED <<inputVars, client, files, parse_failed, dispatched,
                 pass_base, outcomes>>

\* -------------------------------------------------------------- fetch loop
\* Some(Err(e)) | Some(Ok(Err(e)))
FetchHarvestErr ==
  /\ pc = "fetch_loop"
  /\ \E t \in fetchers :
       /\ t.state \in {"Err", "JoinError"}
       /\ fetchers' = fetchers \ {t}
  /\ UNCHANGED <<pc, inputVars, status, diag, client, inital_urls,
                 max_recursion_depth, archive, host_visits, crawlers, runVars,
                 files, historyVars>>

\* Some(Ok(Ok(_)))
FetchHarvestOk ==
  /\ pc = "fetch_loop"
  /\ \E t \in fetchers :
       /\ t.state = "Ok"
       /\ fetchers' = fetchers \ {t}
  /\ fetchers_finished' = FALSE
  /\ UNCHANGED <<pc, inputVars, status, diag, client, inital_urls,
                 max_recursion_depth, archive, host_visits, crawlers, queue,
                 idx, crawlers_finished, files, historyVars>>

\* mutant: the main loop runs until the frontier is empty
LoopExitsWhenDrained(cf, ff, q) == cf /\ ff /\ q = <<>>

\* the main loop's test, reached when self.fetchers.next() is None; it looks
\* at the two flags only, never at the queue q
LoopExits(cf, ff, q) == cf /\ ff

\* the fetch loop breaks; the main loop goes round again, or run returns and
\* main returns Ok(())
FetchLoopBreak ==
  /\ pc = "fetch_loop"
  /\ fetchers = {}
  /\ IF LoopExits(crawlers_finished, fetchers_finished, queue)
     THEN /\ pc' = "returned"
          /\ status' = "success"
          /\ UNCHANGED <<idx, pass_base>>
     ELSE /\ pc' = "dispatching"
          /\ idx' = 1
          /\ pass_base' = Len(dispatched)
          /\ UNCHANGED status
  /\ UNCHANGED <<inputVars, diag, client, dispatcherVars, queue,
                 crawlers_finished, fetchers_finished, files, parse_failed,
                 dispatched, pushed, outcomes>>

\* ------------------------------------------------------------ specification
DispatcherStep ==
  \/ SetupLogger
  \/ setup_app
  \/ Dispatcher_new
  \/ RunStart
  \/ DispatchPanic
  \/ DispatchAdmit
  \/ DispatchDeny
  \/ DispatchEnd
  \/ CrawlLoopBreak
  \/ CrawlHarvestJoinError
  \/ CrawlHarvestErr
  \/ CrawlHarvestOk
  \/ FetchHarvestErr
  \/ FetchHarvestOk
  \/ FetchLoopBreak

TaskStep ==
  \/ \E t \in crawlers : crawl_page(t)
  \/ \E t \in fetchers : fetch(t)

Next == DispatcherStep \/ TaskStep

Spec == Init /\ [][Next]_vars

\* the main task is scheduled whenever it can run, and every spawned task
\* runs to completion (tokio runs ready tasks; requests have a timeout)
FairSpec == Spec /\ WF_vars(DispatcherStep) /\ WF_vars(TaskStep)

TypeOK ==
  /\ pc \in {"setup_logger", "setup_app", "new", "run", "dispatching",
              "crawl_loop", "fetch_loop", "returned", "panicked", "failed"}
  /\ status \in {"running", "success", "failure"}
  /\ idx \in 1..(Len(queue) + 1)
  /\ \A t \in crawlers : t.state \in {"running", "Ok", "Err", "JoinError"}
  /\ \A t \in fetchers : t.state \in {"running", "Ok", "Err"}

\* ------------------------------------------------------------------ claims
\* a task of the collection before the step that is gone after it: harvested
Harvested(t, before, after) ==
  t \in before /\ \A u \in after : u.id # t.id

\* C1: in every reachable state the visit count of every host is at most
\* MAX_HOST_VISITORS: the ceiling is a hard cap.
C1_HostVisitsBounded ==
  \A h \in DOMAIN host_visits : host_visits[h] <= MAX_HOST_VISITORS

\* a finding was just denied for a host whose count stands at the ceiling
C1_Witness ==
  /\ pc = "dispatching"
  /\ idx > 1
  /\ queue[idx - 1].url.host \in DOMAIN host_visits
  /\ host_visits[queue[idx - 1].url.host] = MAX_HOST_VISITORS

\* C2: whenever the crawl loop harvests a Spider task, whatever its outcome,
\* the visit count of the task's host goes down by exactly one.
C2_SpiderReleasesHost ==
  [][\A t \in crawlers :
       (pc = "crawl_loop" /\ pc' = "crawl_loop"
        /\ Harvested(t, crawlers, crawlers'))
       => /\ t.crawl_link.host \in DOMAIN host_visits
          /\ host_visits'[t.crawl_link.host]
               = host_visits[t.crawl_link.host] - 1]_vars

\* C3: whenever the fetch loop harvests a Fetch task, whether it succeeded
\* or failed, the visit count of the task's host goes down by exactly one.
C3_FetchReleasesHost ==
  [][\A t \in fetchers :
       (pc = "fetch_loop" /\ Harvested(t, fetchers, fetchers'))
       => /\ t.resource_url.host \in DOMAIN host_visits
          /\ host_visits'[t.resource_url.host]
               = host_visits[t.resource_url.host] - 1]_vars

\* C4: no finding (same variant, url and depth) is handed to a task twice
\* over a run, the seed findings included.
C4_NoFindingDispatchedTwice ==
  \A i, j \in DOMAIN dispatched : dispatched[i] = dispatched[j] => i = j

\* C5: every Page finding in the response of a Spider task invoked at depth
\* d is tagged with depth d + 1.
C5_FindingsTaggedNextDepth ==
  \A t \in crawlers :
     t.state = "Ok" =>
       \A f \in t.new_findings : f.kind = "Page" => f.depth = t.depth + 1

\* C6: page findings returned by a Spider task invoked at depth d are pushed
\* into the frontier only if d + 1 is below the recursion-depth limit.
C6_PushedOnlyBelowLimitAfterHop ==
  \A p \in pushed :
     p.f.kind = "Page" => p.from_depth + 1 < max_recursion_depth

\* C7: no Page finding whose tagged depth is at or above max_recursion_depth
\* is ever pushed into the frontier by the crawl loop.
C7_PushedDepthBelowLimit ==
  \A p \in pushed : p.f.kind = "Page" => p.f.depth < max_recursion_depth

\* the crawl loop harvested page findings tagged at the limit and archived
\* them without pushing any
C7_Witness ==
  /\ pc = "crawl_loop"
  /\ \E f \in archive : f.kind = "Page" /\ f.depth >= max_recursion_depth
  /\ pushed = {}
  /\ queue = <<>>

\* C8: when run has returned, the frontier is empty and no Spider or Fetch
\* task is outstanding.
C8_DrainedAtReturn ==
  pc = "returned" => queue = <<>> /\ crawlers = {} /\ fetchers = {}

\* C9: when every spawned task completes, run leaves its main loop after
\* finitely many passes, whatever the link graph, the depth limit, the task
\* outcomes and their completion order; it returns when every seed has a host.
C9_RunTerminates ==
  /\ (pc = "run") ~> (pc \in {"returned", "panicked"})
  /\ (pc = "run" /\ \A u \in inital_urls : u.host # NoHost)
       ~> (pc = "returned")

\* run returned after crawling a cyclic link graph
C9_Witness ==
  /\ pc = "returned"
  /\ web = WebCycle
  /\ Len(dispatched) >= 4

UrlParseErrors ==
  {"RelativeUrlWithoutBase", "EmptyHost", "InvalidIpv6Address",
   "InvalidDomainCharacter", "InvalidPort"}

Ids(tasks) == {t.id : t \in tasks}

\* the step takes no successful task out of the collection
NoOkHarvested(before, after) ==
  \A t \in before : t.state = "Ok" => ~Harvested(t, before, after)

\* C11: harvesting a Spider or Fetch task that ended in an error leaves
\* the archive and the frontier as they were and does not end the run: the
\* crawl loop is left only when no Spider task remains, the fetch loop only
\* when no Fetch task remains, and never with a failure.
C11_TaskErrorsAreLocal ==
  [][/\ (pc = "crawl_loop" /\ NoOkHarvested(crawlers, crawlers'))
        => /\ archive' = archive
           /\ queue' = queue
           /\ status' = status
           /\ pc' = "crawl_loop" \/ (pc' = "fetch_loop" /\ crawlers = {})
     /\ pc = "fetch_loop"
        => /\ archive' = archive
           /\ queue' = queue
           /\ status' # "failure"
           /\ pc' = "fetch_loop" \/ fetchers = {}]_vars

\* in the first pass one of two seed tasks was harvested with an error and
\* the other one is still awaited
C11_Witness ==
  /\ pc = "crawl_loop"
  /\ Len(dispatched) = 2
  /\ Cardinality(crawlers) = 1
  /\ crawlers_finished
  /\ archive = {}

\* C12: the archive only grows: every step leaves it with at least the
\* entries it had.
C12_ArchiveOnlyGrows == [][archive \subseteq archive']_vars

\* the archive holds the findings of two harvested pages of the cyclic web
C12_Witness ==
  /\ web = WebCycle
  /\ Page(U_ax, 0) \in archive
  /\ Page(U_a, 0) \in archive

\* C13: no url without a host reaches the host lookup of the dispatching
\* loop, whether it comes from a seed or from a Spider task: the expect
\* "url must have host" never fails.
C13_HostLookupNeverFails ==
  /\ diag # "url must have host"
  /\ (pc = "dispatching" /\ idx <= Len(queue))
       => queue[idx].url.host # NoHost

\* C15: a Fetch task that fails leaves the resource directory as it was: the
\* step in which the task ends with an error creates no file and changes none.
C15_FailedFetchLeavesFiles ==
  [][\A t \in fetchers :
       (t.state = "running" /\ [t EXCEPT !.state = "Err"] \in fetchers')
       => files' = files]_vars

\* the dispatching loop stands at a finding whose host is at the ceiling
DenialPending ==
  /\ pc = "dispatching"
  /\ idx <= Len(queue)
  /\ queue[idx].url.host \in DOMAIN host_visits
  /\ host_visits[queue[idx].url.host] >= MAX_HOST_VISITORS

\* what the main task owns or hands out
DispatcherView ==
  <<pc, idx, queue, host_visits, archive, dispatched, Ids(crawlers),
    Ids(fetchers)>>

\* C16: when a finding is denied admission the step only moves on to the
\* next finding: the finding stays in the frontier, the host's count is
\* not modified, no task is spawned and the archive is untouched.
C16_DenialChangesNothing ==
  [][(DenialPending /\ DispatcherView' # DispatcherView)
     => /\ idx' = idx + 1
        /\ queue' = queue
        /\ host_visits' = host_visits
        /\ archive' = archive
        /\ dispatched' = dispatched
        /\ Ids(crawlers') = Ids(crawlers)
        /\ Ids(fetchers') = Ids(fetchers)
        /\ pc' = pc]_vars

\* the only finding left in the frontier has just been denied
C16_Witness ==
  /\ pc = "dispatching"
  /\ idx = 2
  /\ Len(queue) = 1
  /\ queue[1].url.host \in DOMAIN host_visits
  /\ host_visits[queue[1].url.host] = MAX_HOST_VISITORS
  /\ crawlers # {}

\* C17: a relative candidate that fails to resolve against the site root is
\* dropped on its own: a Spider task whose request succeeded ends with the
\* findings of the page's other candidates, never with a panic.
C17_UnresolvableLinkDropped ==
  \A t \in crawlers :
     t.state \notin {"running", "Err"}
       => /\ t.state = "Ok"
          /\ t.new_findings
               = process_page(t.crawl_link, Body(web, t.crawl_link), t.depth)

\* C18: every finding returned by a Spider task has a url whose scheme
\* contains "http" and whose host is present; urls of other schemes and
\* unparsable candidates never become findings.
C18_FindingsAreHttpWithHost ==
  \A t \in crawlers :
     t.state = "Ok" =>
       \A f \in t.new_findings :
          /\ f.url.scheme \in {"http", "https", "xhttp"}
          /\ f.url.host \in HostNames

\* the page with javascript:, mailto:, ftp:, hostless and unparsable
\* candidates was processed and gave findings
C18_Witness ==
  /\ web = WebBad
  /\ \E t \in crawlers :
        /\ t.state = "Ok"
        /\ t.crawl_link = U_a
        /\ Cardinality(t.new_findings) = 2

\* C19: each pass is a full barrier: every task in flight was admitted in
\* the current pass, a host has at most as many tasks in flight as findings
\* admitted for it in the current pass, and the admission step starts with
\* no task outstanding.
C19_PassIsBarrier ==
  /\ \A t \in crawlers : t.id \in (pass_base + 1)..Len(dispatched)
  /\ \A t \in fetchers : t.id \in (pass_base + 1)..Len(dispatched)
  /\ \A h \in DOMAIN host_visits :
        Cardinality({t \in crawlers : t.crawl_link.host = h})
          + Cardinality({t \in fetchers : t.resource_url.host = h})
        <= Cardinality({i \in (pass_base + 1)..Len(dispatched) :
                          dispatched[i].url.host = h})
  /\ (pc = "dispatching" /\ Len(dispatched) = pass_base)
       => crawlers = {} /\ fetchers = {}

\* a later pass starts with findings to admit, after Spider and Fetch tasks
\* of the pass before were harvested
C19_Witness ==
  /\ pc = "dispatching"
  /\ idx = 1
  /\ pass_base >= 3
  /\ Len(dispatched) = pass_base
  /\ queue # <<>>
  /\ \E i \in DOMAIN dispatched : dispatched[i].kind = "Image"

\* C20: the host-visit counter never underflows: every Spider task in flight
\* has its host counted, the count of a host is at least the number of
\* Spider tasks in flight for it, so each decrement of the crawl loop finds a
\* count of at least 1 and the subtraction never overflows.
C20_DecrementNeverUnderflows ==
  /\ diag # "attempt to subtract with overflow"
  /\ \A t \in crawlers :
        /\ t.crawl_link.host \in DOMAIN host_visits
        /\ host_visits[t.crawl_link.host]
             >= Cardinality({u \in crawlers :
                               u.crawl_link.host = t.crawl_link.host})
  /\ \A h \in DOMAIN host_visits : host_visits[h] \in 0..MAX_HOST_VISITORS

\* the crawl loop decremented the count of a dispatched finding's host back
\* to 0
C20_Witness ==
  /\ pc = "crawl_loop"
  /\ \E i \in DOMAIN dispatched :
        /\ dispatched[i].kind = "Page"
        /\ dispatched[i].url.host \in DOMAIN host_visits
        /\ host_visits[dispatched[i].url.host] = 0

\* the findings handed to a task so far, as a set
DispatchedSet == {dispatched[i] : i \in DOMAIN dispatched}

\* the three links of the page http://a/ of WebFan, resolved
FanLinks == {Url_join(U_a, l).url : l \in {L_x, L_y, L_z}}

\* fixed per-url task outcomes: the requests for /x and /y fail, every other
\* task succeeds
FanOutcome(url) ==
  IF url \in {Url_join(U_a, L_x).url, Url_join(U_a, L_y).url}
  THEN "Err" ELSE "Ok"

\* a run over WebFan from the seed http://a/ with the default depth limit
\* and the fixed task outcomes has returned
FanRun ==
  /\ pc = "returned"
  /\ inital_urls = {U_a}
  /\ web = WebFan
  /\ max_recursion_depth = MAX_RECURSION_DEPTH
  /\ \A o \in outcomes : o.result = FanOutcome(o.url)

\* what the run dispatches and archives that takes /z out of the frontier
\* before /x or /y
FanArchive == {Page(u, TagDepth(0)) : u \in FanLinks}
FanDispatched == {Page(U_a, 0)} \cup FanArchive

\* C14: the dispatched set and the final Archive do not depend on completion
\* or frontier order: for the seed http://a/ over WebFan, the default depth
\* limit and the fixed task outcomes, every run that returns has dispatched
\* the same set of findings and holds the same Archive as the reference run.
C14_OrderIndependent ==
  FanRun => DispatchedSet = FanDispatched /\ archive = FanArchive

\* the reference run exists: a run with these inputs and outcomes returns
\* with FanDispatched and FanArchive
C14_ReferenceRun ==
  /\ FanRun
  /\ DispatchedSet = FanDispatched
  /\ archive = FanArchive
  /\ {o.url : o \in outcomes} = {U_a} \cup FanLinks

====
